---- MODULE Spec2Model ----
(***************************************************************************)
(* Model of the credential vault core of Security-Vault:                   *)
(*   src/password_manager.py  (class PasswordManager)                      *)
(*   src/crypto_utils.py      (class CryptoUtils)                          *)
(*                                                                         *)
(* The state is the two vault files (.master_hash and the data file), one  *)
(* export file, and the fields of the PasswordManager object working on    *)
(* them.  Every public method is one action of Spec; SpecCrypto calls      *)
(* CryptoUtils on its own.  A service name is a sequence of characters so  *)
(* lower().strip() is computed, an envelope is salt + token where the      *)
(* token names the derived key it was made with, and json.dumps/json.loads *)
(* turn a mapping into a set of members and back.                          *)
(***************************************************************************)
EXTENDS Integers, Sequences, FiniteSets, TLC

VARIABLES
    hashFile,    \* content of self.master_hash_file
    dataFile,    \* content of self.data_file
    exportFile,  \* content of the one export path used
    inst,        \* inst[i]: master_password and credentials of object i,
                 \* and whether its process is alive
    held,        \* the records a caller shares with object held.owner
                 \* through the mapping get_all_credentials handed out
    nextSalt,    \* os.urandom: the next salt, one it has not returned before
    now,         \* datetime.now(): the last reading of the clock
    faults,      \* saves that did not finish so far
    last         \* the call that ended last and how it ended

vars == <<hashFile, dataFile, exportFile, inst, held, nextSalt, now, faults, last>>

----------------------------------------------------------------------------
(* Bounds *)

\* number of salts os.urandom hands out (encryptions in one behaviour)
MaxSalt == 4
\* number of readings of the clock (calls that take a timestamp)
MaxClock == 2
\* number of saves that fail or are interrupted
MaxFaults == 1

----------------------------------------------------------------------------
(* Inputs *)

Instances == {1}

MasterPasswords == {"old", "new"}

None == "<None>"

\* "Gh " and "gh" collide under lower().strip(); "x" does not.
Services == { <<"G", "h", " ">>, <<"g", "h">>, <<"x">> }

Passwords == {"p@ss", "Tr0ub4dor&3"}

\* username, password, notes given to add_credential
AddInputs == { <<"alice", "p@ss", "work">> }

\* username, password, notes given to update_credential (None: not given)
UpdateInputs == { <<None, None, None>>, <<"bob", None, "">> }

\* payloads given to encrypt_data: texts of up to four members
Payloads == SUBSET ({"a", "b"} \X Passwords)

\* how a _save_credentials call ends: it returns; open() raises; or the process
\* is stopped before open(), between open() and write(), or inside write()
SaveOutcomes ==
    {"ok", "open_fails", "killed_before_open", "killed_after_open", "killed_in_write"}

----------------------------------------------------------------------------
(* Strings: str.lower and str.strip on sequences of characters *)

LowerChar(c) ==
    CASE c = "G" -> "g"
      [] c = "H" -> "h"
      [] c = "X" -> "x"
      [] OTHER -> c

IsSpace(c) == c \in {" ", "\t", "\n"}

lower(s) == [k \in 1..Len(s) |-> LowerChar(s[k])]

RECURSIVE lstrip(_)
lstrip(s) == IF s # <<>> /\ IsSpace(Head(s)) THEN lstrip(Tail(s)) ELSE s

RECURSIVE rstrip(_)
rstrip(s) ==
    IF s # <<>> /\ IsSpace(s[Len(s)]) THEN rstrip(SubSeq(s, 1, Len(s) - 1)) ELSE s

strip(s) == rstrip(lstrip(s))

\* site.lower().strip()
site_key(site) == strip(lower(site))

----------------------------------------------------------------------------
(* Mappings (Python dicts) as functions *)

EmptyMap == [k \in {} |-> 0]

Put(m, k, v) == [x \in (DOMAIN m) \cup {k} |-> IF x = k THEN v ELSE m[x]]

\* del that empties the mapping
Remove_All(m, k) == EmptyMap

Remove(m, k) == [x \in (DOMAIN m) \ {k} |-> m[x]]

\* json.dumps of a mapping: the text holds one member per key
json_dumps(m) == {<<k, m[k]>> : k \in DOMAIN m}

\* json.loads of such a text
json_loads(t) == [k \in {p[1] : p \in t} |-> (CHOOSE p \in t : p[1] = k)[2]]

\* a text that is not JSON: json.loads raises JSONDecodeError on it
NotJson ==
    {<< <<"<not json>">>, [username |-> "", password |-> "", notes |-> "", timestamp |-> 0] >>}

\* the text of a JSON array: json.loads returns a list for it, not a dict;
\* json_loads of it stands for that list
JsonArray ==
    {<< <<"[]">>, [username |-> "", password |-> "", notes |-> "", timestamp |-> 0] >>}

\* texts a data file written by something other than _save_credentials holds:
\* no JSON, a JSON array, and a JSON object
ForeignTexts == {NotJson, JsonArray, json_dumps(EmptyMap)}

----------------------------------------------------------------------------
(* Files *)

Absent == [kind |-> "absent"]
EmptyFile == [kind |-> "empty"]
\* a prefix of an envelope: the write did not finish
PartialFile == [kind |-> "partial"]

exists(f) == f.kind # "absent"

\* an envelope with a byte of its ciphertext region (after the salt) altered
Tampered(envelope) == [envelope EXCEPT !.kind = "tampered"]

\* fewer bytes than the salt: encrypted_data[:32] is all of it and the token
\* that is left is empty
ShortInput == [kind |-> "short"]

----------------------------------------------------------------------------
(* crypto_utils.py *)

\* _derive_key_from_password: PBKDF2 is taken to be injective
_derive_key_from_password(password, salt) == <<password, salt>>

\* encrypt_data that returns the text it was given
encrypt_data_Plaintext(data, password, salt) == [kind |-> "plain", data |-> data]

\* decrypt_data that does not verify the token before it opens it
decrypt_data_Unauthenticated(encrypted_data, password) ==
    IF encrypted_data.kind \in {"envelope", "tampered"}
    THEN [ok |-> TRUE, data |-> encrypted_data.data]
    ELSE [ok |-> FALSE, exc |-> "Decryption failed"]

\* decrypt_data that derives the key with a salt of its own instead of the
\* salt at the head of the envelope
decrypt_data_OwnSalt(encrypted_data, password) ==
    IF password = None
    THEN [ok |-> FALSE, exc |-> "Decryption failed"]
    ELSE IF encrypted_data.kind = "envelope"
              /\ encrypted_data.key = _derive_key_from_password(password, 0)
         THEN [ok |-> TRUE, data |-> encrypted_data.data]
         ELSE [ok |-> FALSE, exc |-> "Decryption failed"]

\* encrypt_data with a salt that is a constant instead of os.urandom's
encrypt_data_FixedSalt(data, password, salt) ==
    [kind |-> "envelope", salt |-> 1,
     key |-> _derive_key_from_password(password, 1), data |-> data]

\* encrypt_data: salt + Fernet token of data under the derived key
encrypt_data(data, password, salt) ==
    [kind |-> "envelope", salt |-> salt,
     key |-> _derive_key_from_password(password, salt), data |-> data]

\* decrypt_data: the plaintext, or the exception it raises
decrypt_data(encrypted_data, password) ==
    IF password = None
    THEN [ok |-> FALSE, exc |-> "Decryption failed"]
    ELSE IF encrypted_data.kind = "envelope"
              /\ encrypted_data.key
                   = _derive_key_from_password(password, encrypted_data.salt)
         THEN [ok |-> TRUE, data |-> encrypted_data.data]
         ELSE [ok |-> FALSE, exc |-> "Decryption failed"]

----------------------------------------------------------------------------
(* password_manager.py: helpers *)

\* __init__
Fresh == [alive |-> TRUE, master_password |-> None, credentials |-> EmptyMap]

NoHeld == [owner |-> 0, shared |-> {}]

\* _hash_master_password: PBKDF2 with the fixed salt, taken to be injective
_hash_master_password(password) == <<"pbkdf2", password>>

\* is_first_run
is_first_run == ~ exists(hashFile)

\* verify_master_password against the master-hash file hash
verify_master_password(hash, password) ==
    /\ exists(hash)
    /\ hash.content = _hash_master_password(password)

\* the master-hash file holding the password itself instead of its hash
HashText_Unhashed(password) == [kind |-> "text", content |-> <<"plain", password>>]

HashText(password) == [kind |-> "text", content |-> _hash_master_password(password)]

\* _load_credentials: what it returns or raises, and the mapping it leaves
_load_credentials(file, password, credentials) ==
    IF ~ exists(file) \/ file.kind = "empty"
    THEN [ret |-> "True", exc |-> "", credentials |-> EmptyMap]
    ELSE LET d == decrypt_data(file, password)
         IN  IF d.ok
             THEN IF d.data = NotJson
                  THEN [ret |-> "Raise", exc |-> "Corrupted credentials file",
                        credentials |-> credentials]
                  ELSE [ret |-> "True", exc |-> "", credentials |-> json_loads(d.data)]
             ELSE [ret |-> "Raise", exc |-> "Failed to load credentials",
                   credentials |-> credentials]

\* _save_credentials that writes the mapping over the one the file holds,
\* keeping the file's records under keys the mapping does not have
SavedFile_Merging(credentials, password, outcome) ==
    IF password = None THEN dataFile
    ELSE LET old == IF dataFile.kind = "envelope"
                    THEN json_loads(dataFile.data) ELSE EmptyMap
             all == [k \in (DOMAIN old) \cup (DOMAIN credentials) |->
                        IF k \in DOMAIN credentials THEN credentials[k] ELSE old[k]]
         IN  encrypt_data(json_dumps(all), password, nextSalt)

\* _save_credentials: the data file it leaves
SavedFile(credentials, password, outcome) ==
    IF password = None THEN dataFile
    ELSE CASE outcome = "ok" ->
                encrypt_data(json_dumps(credentials), password, nextSalt)
           [] outcome = "killed_after_open" -> EmptyFile
           [] outcome = "killed_in_write" -> PartialFile
           [] OTHER -> dataFile

\* _save_credentials: how it ends
SavedRet(password, outcome) ==
    IF password = None \/ outcome = "open_fails" THEN "Raise"
    ELSE IF outcome = "ok" THEN "True" ELSE "Killed"

\* the salt encrypt_data took from os.urandom
SaltAfter(password) == IF password = None THEN nextSalt ELSE nextSalt + 1

\* what the file holds for a reader who has the password of its envelope
Stored(file) ==
    IF file.kind = "envelope" THEN json_loads(file.data) ELSE EmptyMap

\* a save that does not end "ok" is a fault
FaultsAfter(password, outcome) ==
    IF password # None /\ outcome # "ok" THEN faults + 1 ELSE faults

CanEnd(password, outcome) ==
    password # None /\ outcome # "ok" => faults < MaxFaults

\* the record of a call: the method, the object, the password it was given
\* (None: it takes none), what it returned ("True", "False", "None", "Value"),
\* "Raise" with the message of the exception, or "Killed"
Ended(op, i, pw, ret, exc) ==
    [op |-> op, i |-> i, pw |-> pw, ret |-> ret, exc |-> exc]

\* the object after a call that saved: a killed process makes no more calls
After(i, obj, ret) ==
    [inst EXCEPT ![i] = IF ret = "Killed" THEN [obj EXCEPT !.alive = FALSE] ELSE obj]

HeldAfter(i, h, ret) == IF ret = "Killed" /\ held.owner = i THEN NoHeld ELSE h

\* the caller's mapping once object i has replaced the records under keys
Unshare(i, keys) ==
    IF held.owner = i THEN [held EXCEPT !.shared = @ \ keys] ELSE held

\* datetime.now(): every reading is later than the one before
Tick == now + 1

ExcIf(ret, msg) == IF ret = "Raise" THEN msg ELSE ""

----------------------------------------------------------------------------
(* The state after construction: no file yet, a new object *)

Init ==
    /\ hashFile = Absent
    /\ dataFile = Absent
    /\ exportFile = Absent
    /\ inst = [i \in Instances |-> Fresh]
    /\ held = NoHeld
    /\ nextSalt = 1
    /\ now = 0
    /\ faults = 0
    /\ last = Ended("start", 0, None, "None", "")

----------------------------------------------------------------------------
(* password_manager.py: the methods *)

\* initialize_master_password(password)
initialize_master_password(i, password, outcome) ==
    LET ret == SavedRet(password, outcome)
        obj == [alive |-> TRUE, master_password |-> password,
                credentials |-> EmptyMap]
    IN  /\ inst[i].alive
        /\ nextSalt <= MaxSalt
        /\ CanEnd(password, outcome)
        /\ hashFile' = HashText(password)
        /\ dataFile' = SavedFile(EmptyMap, password, outcome)
        /\ nextSalt' = SaltAfter(password)
        /\ inst' = After(i, obj, ret)
        /\ held' = HeldAfter(i, Unshare(i, Services), ret)
        /\ faults' = FaultsAfter(password, outcome)
        /\ last' = Ended("initialize_master_password", i, password, ret,
                         ExcIf(ret, "Failed to initialize master password"))
        /\ UNCHANGED <<exportFile, now>>

\* the call ends before it changes anything
EndOnly(op, i, pw, ret, exc) ==
    /\ inst[i].alive
    /\ last' = Ended(op, i, pw, ret, exc)
    /\ UNCHANGED <<hashFile, dataFile, exportFile, inst, held, nextSalt, now, faults>>

\* authenticate that shuts the object after a password that does not verify
Authenticated_LocksOut(hash, file, obj, password) ==
    IF ~ verify_master_password(hash, password)
    THEN [ret |-> "False", exc |-> "", obj |-> [obj EXCEPT !.alive = FALSE]]
    ELSE LET l == _load_credentials(file, password, obj.credentials)
         IN  [ret |-> l.ret, exc |-> l.exc,
              obj |-> [obj EXCEPT !.master_password = password,
                                  !.credentials = l.credentials]]

\* authenticate that takes the password as the session password before it
\* verifies it
Authenticated_SetsFirst(hash, file, obj, password) ==
    IF ~ verify_master_password(hash, password)
    THEN [ret |-> "False", exc |-> "", obj |-> [obj EXCEPT !.master_password = password]]
    ELSE LET l == _load_credentials(file, password, obj.credentials)
         IN  [ret |-> l.ret, exc |-> l.exc,
              obj |-> [obj EXCEPT !.master_password = password,
                                  !.credentials = l.credentials]]

\* authenticate(password) on object obj with these files: what it returns or
\* raises, and the object it leaves
Authenticated(hash, file, obj, password) ==
    IF ~ verify_master_password(hash, password)
    THEN [ret |-> "False", exc |-> "", obj |-> obj]
    ELSE LET l == _load_credentials(file, password, obj.credentials)
         IN  [ret |-> l.ret, exc |-> l.exc,
              obj |-> [obj EXCEPT !.master_password = password,
                                  !.credentials = l.credentials]]

\* authenticate(password)
authenticate(i, password) ==
    LET a == Authenticated(hashFile, dataFile, inst[i], password)
    IN  /\ inst[i].alive
        /\ inst' = [inst EXCEPT ![i] = a.obj]
        /\ held' = IF a.ret = "True" THEN Unshare(i, Services) ELSE held
        /\ last' = Ended("authenticate", i, password, a.ret, a.exc)
        /\ UNCHANGED <<hashFile, dataFile, exportFile, nextSalt, now, faults>>

\* the mutation is in memory; _save_credentials runs and the call ends
SaveAndEnd(op, i, credentials, h, msg, outcome) ==
    LET pw == inst[i].master_password
        ret == SavedRet(pw, outcome)
    IN  /\ inst[i].alive
        /\ nextSalt <= MaxSalt
        /\ CanEnd(pw, outcome)
        /\ dataFile' = SavedFile(credentials, pw, outcome)
        /\ nextSalt' = SaltAfter(pw)
        /\ inst' = After(i, [inst[i] EXCEPT !.credentials = credentials], ret)
        /\ held' = HeldAfter(i, h, ret)
        /\ faults' = FaultsAfter(pw, outcome)
        /\ last' = Ended(op, i, None, ret, ExcIf(ret, msg))

\* the key add_credential stores the record under: the name as given
AddKey(service) == service

\* the record add_credential stores
NewRecord(username, password, notes, t) ==
    [username |-> username, password |-> password, notes |-> notes, timestamp |-> t]

\* add_credential(service, username, password, notes)
add_credential(i, service, username, password, notes, outcome) ==
    IF AddKey(service) \in DOMAIN inst[i].credentials
    THEN /\ outcome = "ok"
         /\ EndOnly("add_credential", i, None, "Raise", "already exists")
    ELSE /\ now < MaxClock
         /\ now' = Tick
         /\ SaveAndEnd("add_credential", i,
                       Put(inst[i].credentials, AddKey(service),
                           NewRecord(username, password, notes, Tick)),
                       held, "Failed to save credentials", outcome)
         /\ UNCHANGED <<hashFile, exportFile>>

\* what get_credential(site) returns: the record in a list, or nothing for None
Got(credentials, site) ==
    LET k == site_key(site)
    IN  IF k \in DOMAIN credentials THEN <<credentials[k]>> ELSE <<>>

\* get_credential(site)
get_credential(i, site) ==
    EndOnly("get_credential", i, None,
            IF Got(inst[i].credentials, site) = <<>> THEN "None" ELSE "Value", "")

\* the mapping get_all_credentials hands out: a new dict over the same records
CopyOf(i) == [owner |-> i, shared |-> DOMAIN inst[i].credentials]

\* get_all_credentials()
get_all_credentials(i) ==
    /\ inst[i].alive
    /\ held' = CopyOf(i)
    /\ last' = Ended("get_all_credentials", i, None, "Value", "")
    /\ UNCHANGED <<hashFile, dataFile, exportFile, inst, nextSalt, now, faults>>

SetField(rec, f, v) == [x \in (DOMAIN rec) \cup {f} |-> IF x = f THEN v ELSE rec[x]]

\* update_credential as the earlier definitions of the class have it: the
\* record is replaced by one made of the arguments
Updated_Replaced(rec, username, password, notes, t) ==
    [username |-> username, password |-> password, notes |-> notes, timestamp |-> t]

\* update_credential's changes to one record
Updated(rec, username, password, notes, t) ==
    LET r1 == IF username # None THEN SetField(rec, "username", username) ELSE rec
        r2 == IF password # None THEN SetField(r1, "password", password) ELSE r1
        r3 == IF notes # None THEN SetField(r2, "notes", notes) ELSE r2
    IN  SetField(r3, "updated_at", t)

\* update_credential as the earlier definitions of the class have it: a
\* service that is not in the store is an exception
update_credential_Shadowed(i, site, username, password, notes, outcome) ==
    IF site \notin DOMAIN inst[i].credentials
    THEN /\ outcome = "ok"
         /\ EndOnly("update_credential", i, None, "Raise", "not found")
    ELSE /\ now < MaxClock
         /\ now' = Tick
         /\ SaveAndEnd("update_credential", i,
                       Put(inst[i].credentials, site,
                           NewRecord(username, password, notes, Tick)),
                       Unshare(i, {site}), "Failed to save credentials", outcome)
         /\ UNCHANGED <<hashFile, exportFile>>

\* update_credential(site, username=None, password=None, notes=None)
update_credential(i, site, username, password, notes, outcome) ==
    LET k == site_key(site)
    IN  IF k \notin DOMAIN inst[i].credentials
        THEN /\ outcome = "ok"
             /\ EndOnly("update_credential", i, None, "False", "")
        ELSE /\ now < MaxClock
             /\ now' = Tick
             /\ SaveAndEnd("update_credential", i,
                           Put(inst[i].credentials, k,
                               Updated(inst[i].credentials[k],
                                       username, password, notes, Tick)),
                           held, "Failed to update credential", outcome)
             /\ UNCHANGED <<hashFile, exportFile>>

\* delete_credential(site)
delete_credential(i, site, outcome) ==
    LET k == site_key(site)
    IN  IF k \notin DOMAIN inst[i].credentials
        THEN /\ outcome = "ok"
             /\ EndOnly("delete_credential", i, None, "False", "")
        ELSE /\ SaveAndEnd("delete_credential", i,
                           Remove(inst[i].credentials, k), Unshare(i, {k}),
                           "Failed to delete credential", outcome)
             /\ UNCHANGED <<hashFile, exportFile, now>>

\* change_master_password that saves before it takes the new password: the
\* data file is re-encrypted under the password the object had
change_master_password_SavesFirst(i, current_password, new_password, outcome) ==
    IF ~ verify_master_password(hashFile, current_password)
    THEN /\ outcome = "ok"
         /\ EndOnly("change_master_password", i, current_password, "False", "")
    ELSE LET ret == SavedRet(inst[i].master_password, outcome)
         IN  /\ inst[i].alive
             /\ nextSalt <= MaxSalt
             /\ CanEnd(inst[i].master_password, outcome)
             /\ hashFile' = HashText(new_password)
             /\ dataFile' = SavedFile(inst[i].credentials, inst[i].master_password,
                                      outcome)
             /\ nextSalt' = SaltAfter(inst[i].master_password)
             /\ inst' = After(i, [inst[i] EXCEPT !.master_password = new_password], ret)
             /\ held' = HeldAfter(i, held, ret)
             /\ faults' = FaultsAfter(inst[i].master_password, outcome)
             /\ last' = Ended("change_master_password", i, current_password, ret,
                              ExcIf(ret, "Failed to change master password"))
             /\ UNCHANGED <<exportFile, now>>

\* change_master_password(current_password, new_password)
change_master_password(i, current_password, new_password, outcome) ==
    IF ~ verify_master_password(hashFile, current_password)
    THEN /\ outcome = "ok"
         /\ EndOnly("change_master_password", i, current_password, "False", "")
    ELSE LET ret == SavedRet(new_password, outcome)
         IN  /\ inst[i].alive
             /\ nextSalt <= MaxSalt
             /\ CanEnd(new_password, outcome)
             /\ hashFile' = HashText(new_password)
             /\ dataFile' = SavedFile(inst[i].credentials, new_password, outcome)
             /\ nextSalt' = SaltAfter(new_password)
             /\ inst' = After(i, [inst[i] EXCEPT !.master_password = new_password], ret)
             /\ held' = HeldAfter(i, held, ret)
             /\ faults' = FaultsAfter(new_password, outcome)
             /\ last' = Ended("change_master_password", i, current_password, ret,
                              ExcIf(ret, "Failed to change master password"))
             /\ UNCHANGED <<exportFile, now>>

\* an export that leaves the records out
ExportData_NoRecords(credentials, t) ==
    [exported_at |-> t, version |-> "1.0", credentials |-> json_dumps(EmptyMap)]

\* the plaintext of an export
ExportData(credentials, t) ==
    [exported_at |-> t, version |-> "1.0", credentials |-> json_dumps(credentials)]

\* export_credentials(filename)
export_credentials(i) ==
    IF inst[i].credentials = EmptyMap
    THEN EndOnly("export_credentials", i, None, "False", "")
    ELSE IF inst[i].master_password = None
    THEN /\ inst[i].alive
         /\ now < MaxClock
         /\ now' = Tick
         /\ last' = Ended("export_credentials", i, None, "Raise",
                          "Failed to export credentials")
         /\ UNCHANGED <<hashFile, dataFile, exportFile, inst, held, nextSalt, faults>>
    ELSE /\ inst[i].alive
         /\ now < MaxClock
         /\ nextSalt <= MaxSalt
         /\ now' = Tick
         /\ exportFile' = encrypt_data(ExportData(inst[i].credentials, Tick),
                                       inst[i].master_password, nextSalt)
         /\ nextSalt' = nextSalt + 1
         /\ last' = Ended("export_credentials", i, None, "True", "")
         /\ UNCHANGED <<hashFile, dataFile, inst, held, faults>>

\* the key import_credentials stores an imported record under: the key as read
ImportKey(k) == k

\* import_credentials: the mapping after the merge
Merged(credentials, imported) ==
    [k \in (DOMAIN credentials) \cup {ImportKey(x) : x \in DOMAIN imported} |->
        IF \E x \in DOMAIN imported : ImportKey(x) = k
        THEN imported[CHOOSE x \in DOMAIN imported : ImportKey(x) = k]
        ELSE credentials[k]]

\* import_credentials(filename, master_password)
import_credentials(i, master_password, outcome) ==
    IF ~ exists(exportFile)
    THEN /\ outcome = "ok"
         /\ EndOnly("import_credentials", i, master_password, "False", "")
    ELSE LET d == decrypt_data(exportFile, master_password)
         IN  IF ~ d.ok
             THEN /\ outcome = "ok"
                  /\ EndOnly("import_credentials", i, master_password, "Raise",
                             "Failed to import credentials")
             ELSE LET imported == json_loads(d.data.credentials)
                  IN  /\ SaveAndEnd("import_credentials", i,
                                    Merged(inst[i].credentials, imported),
                                    Unshare(i, {ImportKey(x) : x \in DOMAIN imported}),
                                    "Failed to import credentials", outcome)
                      /\ UNCHANGED <<hashFile, exportFile, now>>

----------------------------------------------------------------------------
(* The callers *)

\* the caller drops the object and makes a new one: PasswordManager()
Restart(i) ==
    /\ inst[i] # Fresh
    /\ inst' = [inst EXCEPT ![i] = Fresh]
    /\ held' = IF held.owner = i THEN NoHeld ELSE held
    /\ last' = Ended("__init__", i, None, "None", "")
    /\ UNCHANGED <<hashFile, dataFile, exportFile, nextSalt, now, faults>>

\* the caller assigns the password field of a record of the mapping it was
\* handed: the record is the object the manager's own dict refers to
CallerSetField(k, v) ==
    /\ k \in held.shared
    /\ inst[held.owner].alive
    /\ inst[held.owner].credentials[k].password # v
    /\ inst' = [inst EXCEPT ![held.owner].credentials =
                    Put(@, k, SetField(@[k], "password", v))]
    /\ last' = Ended("caller_set_field", held.owner, None, "None", "")
    /\ UNCHANGED <<hashFile, dataFile, exportFile, held, nextSalt, now, faults>>

----------------------------------------------------------------------------

Next ==
    \/ \E i \in Instances, p \in MasterPasswords, o \in SaveOutcomes :
          initialize_master_password(i, p, o)
    \/ \E i \in Instances, p \in MasterPasswords : authenticate(i, p)
    \/ \E i \in Instances, s \in Services, a \in AddInputs, o \in SaveOutcomes :
          add_credential(i, s, a[1], a[2], a[3], o)
    \/ \E i \in Instances, s \in Services : get_credential(i, s)
    \/ \E i \in Instances : get_all_credentials(i)
    \/ \E i \in Instances, s \in Services, a \in UpdateInputs, o \in SaveOutcomes :
          update_credential(i, s, a[1], a[2], a[3], o)
    \/ \E i \in Instances, s \in Services, o \in SaveOutcomes :
          delete_credential(i, s, o)
    \/ \E i \in Instances, c \in MasterPasswords, p \in MasterPasswords,
          o \in SaveOutcomes : change_master_password(i, c, p, o)
    \/ \E i \in Instances : export_credentials(i)
    \/ \E i \in Instances, p \in MasterPasswords, o \in SaveOutcomes :
          import_credentials(i, p, o)
    \/ \E i \in Instances : Restart(i)
    \/ \E k \in Services, v \in Passwords : CallerSetField(k, v)

Spec == Init /\ [][Next]_vars

----------------------------------------------------------------------------
(* crypto_utils.py called on its own: a caller encrypts a payload under a   *)
(* password, keeps the envelope in a file, and decrypts it under a password *)

\* encrypt_data(data, password)
call_encrypt_data(data, password) ==
    /\ nextSalt <= MaxSalt
    /\ exportFile' = encrypt_data(data, password, nextSalt)
    /\ nextSalt' = nextSalt + 1
    /\ last' = Ended("encrypt_data", 0, password, "Value", "")
    /\ UNCHANGED <<hashFile, dataFile, inst, held, now, faults>>

\* decrypt_data(encrypted_data, password)
call_decrypt_data(password) ==
    LET d == decrypt_data(exportFile, password)
    IN  /\ exists(exportFile)
        /\ last' = Ended("decrypt_data", 0, password,
                         IF d.ok THEN "Value" ELSE "Raise",
                         IF d.ok THEN "" ELSE d.exc)
        /\ UNCHANGED <<hashFile, dataFile, exportFile, inst, held, nextSalt, now, faults>>

\* a byte of the ciphertext region of the stored envelope is altered
call_tamper ==
    /\ exportFile.kind = "envelope"
    /\ exportFile' = Tampered(exportFile)
    /\ last' = Ended("tamper", 0, None, "None", "")
    /\ UNCHANGED <<hashFile, dataFile, inst, held, nextSalt, now, faults>>

\* the stored envelope is cut to fewer bytes than a salt
call_truncate ==
    /\ exportFile.kind \in {"envelope", "tampered"}
    /\ exportFile' = ShortInput
    /\ last' = Ended("truncate", 0, None, "None", "")
    /\ UNCHANGED <<hashFile, dataFile, inst, held, nextSalt, now, faults>>

NextCrypto ==
    \/ \E data \in Payloads, password \in MasterPasswords :
          call_encrypt_data(data, password)
    \/ \E password \in MasterPasswords : call_decrypt_data(password)
    \/ call_tamper
    \/ call_truncate

SpecCrypto == Init /\ [][NextCrypto]_vars

----------------------------------------------------------------------------
(* Loading a data file that _save_credentials did not write: something else *)
(* (a restored copy, another program) left it there                         *)

\* the data file is replaced by an envelope of a text under a password
write_data_file(text, password) ==
    /\ nextSalt <= MaxSalt
    /\ dataFile' = encrypt_data(text, password, nextSalt)
    /\ nextSalt' = nextSalt + 1
    /\ last' = Ended("write_data_file", 0, password, "None", "")
    /\ UNCHANGED <<hashFile, exportFile, inst, held, now, faults>>

\* a byte of the ciphertext region of the data file is altered
tamper_data_file ==
    /\ dataFile.kind = "envelope"
    /\ dataFile' = Tampered(dataFile)
    /\ last' = Ended("tamper_data_file", 0, None, "None", "")
    /\ UNCHANGED <<hashFile, exportFile, inst, held, nextSalt, now, faults>>

NextLoad ==
    \/ \E i \in Instances, p \in MasterPasswords :
          initialize_master_password(i, p, "ok")
    \/ \E i \in Instances, s \in Services, a \in AddInputs :
          add_credential(i, s, a[1], a[2], a[3], "ok")
    \/ \E text \in ForeignTexts, password \in MasterPasswords :
          write_data_file(text, password)
    \/ tamper_data_file
    \/ \E i \in Instances, p \in MasterPasswords : authenticate(i, p)
    \/ \E i \in Instances : Restart(i)

SpecLoad == Init /\ [][NextLoad]_vars

----------------------------------------------------------------------------
(* Two PasswordManager objects, in two processes, on the same files *)

TwoInstances == {1, 2}

InitTwo ==
    /\ hashFile = Absent
    /\ dataFile = Absent
    /\ exportFile = Absent
    /\ inst = [i \in TwoInstances |-> Fresh]
    /\ held = NoHeld
    /\ nextSalt = 1
    /\ now = 0
    /\ faults = 0
    /\ last = Ended("start", 0, None, "None", "")

NextTwo ==
    \/ \E i \in TwoInstances, p \in MasterPasswords :
          initialize_master_password(i, p, "ok")
    \/ \E i \in TwoInstances, p \in MasterPasswords : authenticate(i, p)
    \/ \E i \in TwoInstances, s \in Services, a \in AddInputs :
          add_credential(i, s, a[1], a[2], a[3], "ok")
    \/ \E i \in TwoInstances, s \in Services, a \in UpdateInputs :
          update_credential(i, s, a[1], a[2], a[3], "ok")
    \/ \E i \in TwoInstances, s \in Services : delete_credential(i, s, "ok")

SpecTwo == InitTwo /\ [][NextTwo]_vars

----------------------------------------------------------------------------
(* get_statistics *)

\* the length under which get_statistics counts a password as weak
WeakBelow == 8

\* username, password, notes of the records the statistics are taken of: a
\* password of 4, of 8 and of 11 characters, notes empty and not
StatsInputs ==
    { <<"alice", "p@ss", "work">>, <<"bob", "12345678", "">>,
      <<"carol", "Tr0ub4dor&3", "">> }

\* len() of the passwords used
len(password) ==
    CASE password = "" -> 0
      [] password = "p@ss" -> 4
      [] password = "12345678" -> 8
      [] password = "Tr0ub4dor&3" -> 11

\* the loop of get_statistics over self.credentials.values(): the number of
\* records whose password is shorter than WeakBelow, counted with <= instead
RECURSIVE WeakCount_AtMost(_, _)
WeakCount_AtMost(credentials, keys) ==
    IF keys = {} THEN 0
    ELSE LET k == CHOOSE x \in keys : TRUE
         IN  ( IF len(credentials[k].password) <= WeakBelow THEN 1 ELSE 0 )
             + WeakCount_AtMost(credentials, keys \ {k})

\* the loop of get_statistics over self.credentials.values(): the number of
\* records whose password is shorter than WeakBelow
RECURSIVE WeakCount(_, _)
WeakCount(credentials, keys) ==
    IF keys = {} THEN 0
    ELSE LET k == CHOOSE x \in keys : TRUE
         IN  ( IF len(credentials[k].password) < WeakBelow THEN 1 ELSE 0 )
             + WeakCount(credentials, keys \ {k})

\* what get_statistics returns
Statistics(credentials) ==
    LET total_credentials == Cardinality(DOMAIN credentials)
        weak_passwords == WeakCount(credentials, DOMAIN credentials)
    IN  [total_credentials |-> total_credentials,
         sites_with_notes |->
            Cardinality({k \in DOMAIN credentials : credentials[k].notes # ""}),
         weak_passwords |-> weak_passwords,
         strong_passwords |-> total_credentials - weak_passwords]

\* get_statistics()
get_statistics(i) == EndOnly("get_statistics", i, None, "Value", "")

NextStats ==
    \/ \E i \in Instances, p \in MasterPasswords :
          initialize_master_password(i, p, "ok")
    \/ \E i \in Instances, p \in MasterPasswords : authenticate(i, p)
    \/ \E i \in Instances, s \in Services, a \in StatsInputs :
          add_credential(i, s, a[1], a[2], a[3], "ok")
    \/ \E i \in Instances, s \in Services : delete_credential(i, s, "ok")
    \/ \E i \in Instances : get_statistics(i)
    \/ \E i \in Instances : Restart(i)

SpecStats == Init /\ [][NextStats]_vars

----------------------------------------------------------------------------
(* Claims *)

\* the methods that change the store or the master password
Mutators ==
    {"add_credential", "update_credential", "delete_credential",
     "import_credentials", "change_master_password", "initialize_master_password"}

\* object i has a master password and the record under k is in the data file too
Persisted(i, k) ==
    /\ inst[i].master_password # None
    /\ k \in DOMAIN inst[i].credentials
    /\ k \in DOMAIN Stored(dataFile)

\* C1: key uniqueness is case- and whitespace-insensitive: once a service is
\* stored, add_credential of a name with the same lower().strip() raises the
\* duplicate-service error and leaves the store as it was.
C1_DuplicateNormalized ==
    [][\A i \in Instances, s \in Services, a \in AddInputs :
          ( /\ add_credential(i, s, a[1], a[2], a[3], "ok")
            /\ \E k \in DOMAIN inst[i].credentials :
                  Persisted(i, k) /\ site_key(k) = site_key(s) )
          => ( /\ last'.ret = "Raise"
               /\ last'.exc = "already exists"
               /\ inst'[i].credentials = inst[i].credentials )]_vars

\* C2: after a successful add_credential(s, u, p, n), get_credential(s) returns
\* the record just added, and update_credential(s) and delete_credential(s)
\* find it under site_key(s).
C2_LookupAfterAdd ==
    [][\A i \in Instances, s \in Services, a \in AddInputs :
          ( add_credential(i, s, a[1], a[2], a[3], "ok") /\ last'.ret = "True" )
          => ( /\ Got(inst'[i].credentials, s) = <<NewRecord(a[1], a[2], a[3], now')>>
               /\ site_key(s) \in DOMAIN inst'[i].credentials )]_vars

\* C3: after initialize_master_password and one add_credential(service, u, p, n),
\* get_all_credentials holds exactly one entry, under the normalized service
\* name, with the fields given and a created_at field.
C3_ScenarioA ==
    [][\A i \in Instances, s \in Services, a \in AddInputs :
          ( /\ last.op = "initialize_master_password" /\ last.ret = "True"
            /\ add_credential(i, s, a[1], a[2], a[3], "ok") /\ last'.ret = "True" )
          => LET all == inst'[i].credentials
             IN  /\ DOMAIN all = {site_key(s)}
                 /\ all[site_key(s)].username = a[1]
                 /\ all[site_key(s)].password = a[2]
                 /\ all[site_key(s)].notes = a[3]
                 /\ "created_at" \in DOMAIN all[site_key(s)]]_vars

\* C4: on an initialized vault, authenticate(P) with a P the master-hash file
\* does not name returns False and changes neither the object nor any file.
C4_WrongPasswordChangesNothing ==
    [][\A i \in Instances, p \in MasterPasswords :
          ( /\ authenticate(i, p)
            /\ ~ is_first_run
            /\ hashFile # HashText(p) )
          => ( /\ last'.ret = "False"
               /\ UNCHANGED <<hashFile, dataFile, exportFile, inst>> )]_vars

\* C4 witness: a new object on a vault that stores a record was refused
C4_Witness ==
    /\ last.op = "authenticate" /\ last.ret = "False"
    /\ inst[last.i] = Fresh
    /\ ~ is_first_run
    /\ Stored(dataFile) # EmptyMap

\* C5: after a successful change_master_password to new by an object holding C,
\* a new object on the same files is refused with every other password,
\* authenticates with new, and then holds C.
C5_ChangeThenReopen ==
    ( last.op = "change_master_password" /\ last.ret = "True" )
    => \A p \in MasterPasswords :
          LET a == Authenticated(hashFile, dataFile, Fresh, p)
          IN  IF p = inst[last.i].master_password
              THEN a.ret = "True" /\ a.obj.credentials = inst[last.i].credentials
              ELSE a.ret = "False"

\* C5 witness: old was changed to new while a record was stored
C5_Witness ==
    /\ last.op = "change_master_password" /\ last.ret = "True"
    /\ last.pw = "old"
    /\ inst[last.i].master_password = "new"
    /\ inst[last.i].credentials # EmptyMap

\* C6: when the process stops inside a save, a later authenticate with the
\* right password loads the mapping the file held before or the mapping that
\* was being written, never another one.
C6_CrashAtomicity ==
    [][\A i \in Instances, p \in MasterPasswords :
          ( inst[i].alive /\ ~ inst'[i].alive )
          => LET a == Authenticated(hashFile', dataFile', Fresh, p)
             IN  a.ret = "True"
                 => a.obj.credentials \in {Stored(dataFile), inst'[i].credentials}]_vars

\* C7: right after a successful mutation returns, the data file is one
\* envelope that decrypts under the object's master password to the whole
\* in-memory mapping, and its salt is not the salt of the envelope it replaced.
C7_PersistenceDiscipline ==
    [][( last'.op \in Mutators /\ last'.ret = "True" )
          => LET me == inst'[last'.i]
                 d == decrypt_data(dataFile', me.master_password)
             IN  /\ dataFile'.kind = "envelope"
                 /\ d.ok
                 /\ json_loads(d.data) = me.credentials
                 /\ dataFile.kind = "envelope" => dataFile'.salt # dataFile.salt]_vars

\* C7 witness: an update replaced an envelope
C7_Witness ==
    /\ last.op = "update_credential" /\ last.ret = "True"
    /\ dataFile.kind = "envelope"
    /\ dataFile.salt > 2

\* C8: nothing a caller does to the mapping get_all_credentials returned changes
\* what get_credential or get_all_credentials return later.
C8_DefensiveCopy ==
    [][\A k \in Services, v \in Passwords :
          ( CallerSetField(k, v) /\ Persisted(held.owner, k) )
          => \A s \in Services :
                Got(inst'[held.owner].credentials, s)
                   = Got(inst[held.owner].credentials, s)]_vars

\* C9: change_master_password with a current password that does not verify
\* raises, and leaves the files and the object unchanged.
C9_ChangeWrongCurrentRaises ==
    [][\A i \in Instances, c \in MasterPasswords, n \in MasterPasswords :
          ( /\ change_master_password(i, c, n, "ok")
            /\ ~ verify_master_password(hashFile, c) )
          => ( /\ last'.ret = "Raise"
               /\ UNCHANGED <<hashFile, dataFile, inst>> )]_vars

\* C10: initialize_master_password on an initialized vault raises and leaves
\* the master-hash file, the data file and the stored credentials unchanged.
C10_InitializeTwiceRaises ==
    [][\A i \in Instances, p \in MasterPasswords :
          ( initialize_master_password(i, p, "ok") /\ ~ is_first_run )
          => ( /\ last'.ret = "Raise"
               /\ UNCHANGED <<hashFile, dataFile, inst>> )]_vars

\* C11: initialize_master_password(P) that succeeds on a vault with no
\* master-hash file leaves is_first_run false and verify_master_password(P)
\* true, an empty store in memory, and a data file that exists and decrypts
\* under P to the empty mapping.
C11_InitializeFresh ==
    [][( /\ last'.op = "initialize_master_password"
         /\ last'.ret = "True"
         /\ is_first_run )
       => \A i \in Instances, p \in MasterPasswords :
             initialize_master_password(i, p, "ok")
             => LET d == decrypt_data(dataFile', p)
                IN  /\ ~ is_first_run'
                    /\ verify_master_password(hashFile', p)
                    /\ \A q \in MasterPasswords \ {p} :
                          ~ verify_master_password(hashFile', q)
                    /\ inst'[i].master_password = p
                    /\ inst'[i].credentials = EmptyMap
                    /\ exists(dataFile')
                    /\ d.ok
                    /\ json_loads(d.data) = EmptyMap]_vars

\* C11 witness: the first save of the behaviour was that of a successful
\* initialize_master_password, so the vault had no master-hash file before it
C11_Witness ==
    /\ last.op = "initialize_master_password" /\ last.ret = "True"
    /\ nextSalt = 2
    /\ ~ is_first_run
    /\ inst[last.i].credentials = EmptyMap
    /\ dataFile.kind = "envelope"

\* C12: verify_master_password(P) is true exactly for the password installed by
\* the most recent successful initialize_master_password or
\* change_master_password: the master-hash file is absent at the start, a
\* successful installation of P leaves it naming P, no other call changes it,
\* and verify_master_password accepts exactly the password the file names.
C12_VerifyTracksInstalled ==
    [][IF last'.ret = "True" /\ last'.op = "initialize_master_password"
       THEN \A i \in Instances, p \in MasterPasswords :
               initialize_master_password(i, p, "ok") => hashFile' = HashText(p)
       ELSE IF last'.ret = "True" /\ last'.op = "change_master_password"
       THEN \A i \in Instances, c \in MasterPasswords, p \in MasterPasswords :
               change_master_password(i, c, p, "ok") => hashFile' = HashText(p)
       ELSE \A p \in MasterPasswords :
               verify_master_password(hashFile', p)
                  <=> verify_master_password(hashFile, p)]_vars

C14_MissingReturnsFalse ==
    [][/\ last'.op = "update_credential" =>
          \A i \in Instances, s \in Services :
             site_key(s) \notin DOMAIN inst[i].credentials
             => \A a \in UpdateInputs :
                   update_credential(i, s, a[1], a[2], a[3], "ok")
                   => ( /\ last'.ret = "False" /\ last'.exc = ""
                        /\ UNCHANGED <<hashFile, dataFile, exportFile, inst, nextSalt>> )
       /\ last'.op = "delete_credential" =>
          \A i \in Instances, s \in Services :
             site_key(s) \notin DOMAIN inst[i].credentials
             => ( delete_credential(i, s, "ok")
                  => ( /\ last'.ret = "False" /\ last'.exc = ""
                       /\ UNCHANGED <<hashFile, dataFile, exportFile, inst, nextSalt>> ) )]_vars

\* C14 witness: an update of a missing site on a store that holds a record
C14_Witness ==
    /\ last.op = "update_credential" /\ last.ret = "False"
    /\ inst[last.i].credentials # EmptyMap
    /\ Stored(dataFile) = inst[last.i].credentials

\* C15: after delete_credential(s) returns True, get_credential(s) returns
\* None, the records under other keys are as they were, the data file decrypts
\* to the mapping without the key, and the key is not in the store, which is
\* when delete_credential(s) returns False.
C15_DeleteRemoves ==
    [][( last'.op = "delete_credential" /\ last'.ret = "True" ) =>
       \A i \in Instances, s \in Services :
          delete_credential(i, s, "ok")
          => LET k == site_key(s)
                 d == decrypt_data(dataFile', inst'[i].master_password)
             IN  /\ Got(inst'[i].credentials, s) = <<>>
                 /\ k \notin DOMAIN inst'[i].credentials
                 /\ DOMAIN inst'[i].credentials = DOMAIN inst[i].credentials \ {k}
                 /\ \A x \in DOMAIN inst'[i].credentials :
                       inst'[i].credentials[x] = inst[i].credentials[x]
                 /\ d.ok
                 /\ json_loads(d.data) = inst'[i].credentials]_vars

\* C15 witness: a delete that left another record in the store
C15_Witness ==
    /\ last.op = "delete_credential" /\ last.ret = "True"
    /\ inst[last.i].credentials # EmptyMap
    /\ Stored(dataFile) = inst[last.i].credentials

\* C16: export_credentials on an object that has its master password and a
\* store with no record raises, and leaves the export file as it was.
C16_ExportEmptyRaises ==
    [][last'.op = "export_credentials" =>
       \A i \in Instances :
          ( /\ inst[i].master_password # None
            /\ inst[i].credentials = EmptyMap
            /\ export_credentials(i) )
          => ( last'.ret = "Raise" /\ exportFile' = exportFile )]_vars

C18_ImportNormalizes ==
    [][( last'.op = "import_credentials" /\ last'.ret = "True" ) =>
       \A i \in Instances, p \in MasterPasswords :
          import_credentials(i, p, "ok")
          => LET imported == json_loads(decrypt_data(exportFile, p).data.credentials)
                 after == inst'[i].credentials
             IN  /\ \A x \in DOMAIN imported :
                       /\ site_key(x) \in DOMAIN after
                       /\ after[site_key(x)] = imported[x]
                 /\ \A k \in DOMAIN inst[i].credentials :
                       ( \A x \in DOMAIN imported : site_key(x) # site_key(k) )
                       => ( k \in DOMAIN after /\ after[k] = inst[i].credentials[k] )
                 /\ \A k1, k2 \in DOMAIN after :
                       site_key(k1) = site_key(k2) => k1 = k2
                 /\ nextSalt' = nextSalt + 1]_vars

C20_EncryptDecryptRoundTrip ==
    [][last'.op = "encrypt_data" =>
       \A data \in Payloads, password \in MasterPasswords :
          call_encrypt_data(data, password)
          => decrypt_data(exportFile', password) = [ok |-> TRUE, data |-> data]]_vars

\* C20 witness: an envelope of a payload that is not empty was decrypted
C20_Witness ==
    /\ last.op = "decrypt_data" /\ last.ret = "Value"
    /\ exportFile.kind = "envelope"
    /\ exportFile.data # {}
    /\ decrypt_data(exportFile, last.pw).data = exportFile.data

C22_ShortInputFormatError ==
    ( last.op = "decrypt_data" /\ exportFile.kind = "short" )
    => ( /\ last.ret = "Raise"
         /\ last.exc # decrypt_data(encrypt_data({}, "old", 1), "new").exc )

\* C23: the mapping a reader loads from the data file changes only in a
\* mutation that returns True, which leaves in the file the mapping it has in
\* memory; and authenticate that returns
\* True on a new object leaves in memory the mapping of the data file, the
\* empty one when there is no data file. So a new session holds what the last
\* successful save wrote.
C23_DurabilityAcrossSessions ==
    [][/\ ( dataFile'.kind # "partial" /\ Stored(dataFile') # Stored(dataFile) )
          => ( /\ last'.op \in Mutators /\ last'.ret = "True"
               /\ Stored(dataFile') = inst'[last'.i].credentials )
       /\ ( last'.op = "authenticate" /\ last'.ret = "True" ) =>
          \A i \in Instances :
             inst[i] = Fresh
             => ( /\ inst'[i].credentials = Stored(dataFile)
                  /\ ~ exists(dataFile) => inst'[i].credentials = EmptyMap )]_vars

C25_LoadFailureKinds ==
    [][last'.op = "authenticate" =>
       \A i \in Instances, p \in MasterPasswords :
          ( /\ verify_master_password(hashFile, p)
            /\ dataFile.kind \notin {"absent", "empty"}
            /\ authenticate(i, p) )
          => LET d == decrypt_data(dataFile, p)
             IN  /\ ~ d.ok
                    => ( /\ last'.ret = "Raise"
                         /\ last'.exc = "Failed to load credentials"
                         /\ inst'[i].credentials = inst[i].credentials )
                 /\ ( d.ok /\ d.data \in {NotJson, JsonArray} )
                    => ( /\ last'.ret = "Raise"
                         /\ last'.exc = "Corrupted credentials file"
                         /\ inst'[i].credentials = inst[i].credentials )]_vars

\* C26: with two objects on the same files, a mutation that returns True
\* leaves in the data file exactly the mapping of the object that made it,
\* whatever the file held, and leaves the other object as it was; and
\* add_credential of a key its object does not hold returns True even when the
\* file differs from the mapping the object holds: nothing reports a conflict.
C26_LastWriterWins ==
    [][/\ ( /\ last'.op \in {"add_credential", "update_credential", "delete_credential"}
            /\ last'.ret = "True" )
          => ( /\ Stored(dataFile') = inst'[last'.i].credentials
               /\ \A j \in TwoInstances \ {last'.i} : inst'[j] = inst[j] )
       /\ last'.op = "add_credential" =>
          \A i \in TwoInstances, s \in Services, a \in AddInputs :
             ( /\ inst[i].master_password # None
               /\ AddKey(s) \notin DOMAIN inst[i].credentials
               /\ Stored(dataFile) # inst[i].credentials
               /\ add_credential(i, s, a[1], a[2], a[3], "ok") )
             => last'.ret = "True"]_vars

\* C26 witness: after initialize_master_password and one add_credential by each
\* object, the file holds the mapping of the one that saved last and not the
\* record the other one added
C26_Witness ==
    /\ last.op = "add_credential" /\ last.ret = "True"
    /\ nextSalt = 4
    /\ Stored(dataFile) = inst[last.i].credentials
    /\ \E j \in TwoInstances \ {last.i} :
          /\ inst[j].master_password # None
          /\ \E k \in DOMAIN inst[j].credentials, m \in DOMAIN inst[last.i].credentials :
                /\ k \notin DOMAIN Stored(dataFile)
                /\ inst[j].credentials[k].timestamp = 1
                /\ inst[last.i].credentials[m].timestamp = 2

\* C27: get_statistics changes neither the object nor any file, and what it
\* returns for the store has total_credentials equal to the number of records,
\* weak_passwords equal to the number of records whose password is shorter
\* than 8 characters, and weak_passwords + strong_passwords equal to
\* total_credentials.
C27_StatisticsReadOnly ==
    [][last'.op = "get_statistics" =>
       \A i \in Instances :
          get_statistics(i)
          => LET credentials == inst[i].credentials
                 st == Statistics(credentials)
             IN  /\ UNCHANGED <<hashFile, dataFile, exportFile, inst, nextSalt>>
                 /\ last'.ret = "Value"
                 /\ st.total_credentials = Cardinality(DOMAIN credentials)
                 /\ st.weak_passwords
                       = Cardinality({k \in DOMAIN credentials :
                                         len(credentials[k].password) < 8})
                 /\ st.weak_passwords + st.strong_passwords = st.total_credentials
                 /\ st.strong_passwords >= 0]_vars

\* C27 witness: statistics were taken of a store that holds a password of 8
\* characters and a shorter one
C27_Witness ==
    /\ last.op = "get_statistics" /\ last.ret = "Value"
    /\ \E k, m \in DOMAIN inst[last.i].credentials :
          /\ len(inst[last.i].credentials[k].password) = 8
          /\ len(inst[last.i].credentials[m].password) < 8
    /\ Statistics(inst[last.i].credentials).weak_passwords = 1
    /\ Statistics(inst[last.i].credentials).strong_passwords = 1

\* C28: on a vault that has a master-hash file, a call of add_credential,
\* update_credential, delete_credential, import_credentials or
\* change_master_password on a new object, one that has not authenticated,
\* leaves the data file as it was.
C28_OnlyUnlockedWrites ==
    [][( /\ last'.op \in {"add_credential", "update_credential", "delete_credential",
                          "import_credentials", "change_master_password"}
         /\ ~ is_first_run
         /\ inst[last'.i] = Fresh )
       => dataFile' = dataFile]_vars

\* C29: in every state between calls, a password verify_master_password
\* accepts decrypts the data file when that file exists and is not empty.
C29_HashDataAgreement ==
    \A p \in MasterPasswords :
       ( /\ verify_master_password(hashFile, p)
         /\ dataFile.kind \notin {"absent", "empty"} )
       => decrypt_data(dataFile, p).ok

\* C30: when add_credential, update_credential, delete_credential or
\* import_credentials raises because the save failed, the mapping in memory is
\* the one the object had before the call.
C30_FailedMutationKeepsMemory ==
    [][( /\ last'.op \in {"add_credential", "update_credential", "delete_credential",
                          "import_credentials"}
         /\ last'.ret = "Raise"
         /\ last'.exc \in {"Failed to save credentials", "Failed to update credential",
                           "Failed to delete credential", "Failed to import credentials"}
         /\ inst[last'.i].master_password # None )
       => inst'[last'.i].credentials = inst[last'.i].credentials]_vars

====
